---- MODULE Spec2Model ----
(***************************************************************************)
(* Model of src/src/image.ts: the ENVI header parser (loadHeaderData), the *)
(* lazy header load started by the EnviImage constructor, and the band     *)
(* extraction getBilData with its validation chain and its three           *)
(* interleave-specific copy loops.                                         *)
(*                                                                         *)
(* Strings are sequences of one-character strings.  A header value is a    *)
(* record [s |-> chars] (scalar string) or [l |-> <<chars, ...>>] (list).  *)
(* A JavaScript number is [nan |-> BOOLEAN, n |-> Int].                    *)
(***************************************************************************)
EXTENDS Integers, Sequences, FiniteSets

(***************************************************************************)
(* Bounds of the model.                                                    *)
(***************************************************************************)
MaxHeaderLines == 3

(***************************************************************************)
(* JavaScript string primitives used by the parser.                        *)
(***************************************************************************)
WhiteSpace == {" ", "\t", "\r", "\n"}

Upper == <<"A","B","C","D","E","F","G","H","I","J","K","L","M",
           "N","O","P","Q","R","S","T","U","V","W","X","Y","Z">>

Lower == <<"a","b","c","d","e","f","g","h","i","j","k","l","m",
           "n","o","p","q","r","s","t","u","v","w","x","y","z">>

Digits == <<"0","1","2","3","4","5","6","7","8","9">>

\* String.prototype.slice(from, to) with 0-based, end-exclusive indices.
slice(s, from, to) ==
  IF to <= from THEN <<>> ELSE SubSeq(s, from + 1, to)

\* String.prototype.trim()
RECURSIVE trimStart(_)
trimStart(s) ==
  IF s # <<>> /\ Head(s) \in WhiteSpace THEN trimStart(Tail(s)) ELSE s

RECURSIVE trimEnd(_)
trimEnd(s) ==
  IF s # <<>> /\ s[Len(s)] \in WhiteSpace
  THEN trimEnd(SubSeq(s, 1, Len(s) - 1)) ELSE s

trim(s) == trimEnd(trimStart(s))

\* String.prototype.indexOf(ch): 0-based index of the first ch, or -1.
indexOf(s, ch) ==
  IF \E k \in 1..Len(s) : s[k] = ch
  THEN (CHOOSE k \in 1..Len(s) : s[k] = ch /\ \A m \in 1..(k - 1) : s[m] # ch) - 1
  ELSE -1

\* String.prototype.replace(a, b) with a string pattern: first occurrence only.
replace(s, a, b) ==
  LET k == indexOf(s, a)
  IN IF k = -1 THEN s ELSE [m \in 1..Len(s) |-> IF m = k + 1 THEN b ELSE s[m]]

lowerChar(ch) ==
  IF \E k \in 1..26 : Upper[k] = ch
  THEN Lower[CHOOSE k \in 1..26 : Upper[k] = ch]
  ELSE ch

\* String.prototype.toLowerCase()
toLowerCase(s) == [m \in 1..Len(s) |-> lowerChar(s[m])]

\* String.prototype.endsWith(ch)
endsWith(s, ch) == s # <<>> /\ s[Len(s)] = ch

\* String.prototype.split(sep): always at least one piece.
RECURSIVE split(_, _)
split(s, sep) ==
  LET k == indexOf(s, sep)
  IN IF k = -1 THEN <<s>>
     ELSE <<slice(s, 0, k)>> \o split(slice(s, k + 1, Len(s)), sep)

\* Array.prototype.join(sep)
RECURSIVE join(_, _)
join(l, sep) ==
  IF l = <<>> THEN <<>>
  ELSE IF Len(l) = 1 THEN l[1]
  ELSE l[1] \o <<sep>> \o join(Tail(l), sep)

(***************************************************************************)
(* JavaScript numbers and parseInt.                                        *)
(***************************************************************************)
NaN == [nan |-> TRUE, n |-> 0]

Num(k) == [nan |-> FALSE, n |-> k]

isNaN(x) == x.nan

digitVal(ch) == (CHOOSE k \in 1..10 : Digits[k] = ch) - 1

isDigit(ch) == \E k \in 1..10 : Digits[k] = ch

RECURSIVE parseDigits(_, _)
parseDigits(s, acc) ==
  IF s # <<>> /\ isDigit(Head(s))
  THEN parseDigits(Tail(s), acc * 10 + digitVal(Head(s)))
  ELSE acc

\* parseInt(string): leading white space, an optional sign, then the longest
\* run of decimal digits; NaN when there is no digit.  (The header values
\* of the model never start with "0x", the one case parseInt reads as hex.)
parseIntStr(s) ==
  LET t == trimStart(s)
      neg == t # <<>> /\ Head(t) = "-"
      u == IF t # <<>> /\ Head(t) \in {"-", "+"} THEN Tail(t) ELSE t
  IN IF u = <<>> \/ ~isDigit(Head(u)) THEN NaN
     ELSE Num(IF neg THEN 0 - parseDigits(u, 0) ELSE parseDigits(u, 0))

IsList(v) == "l" \in DOMAIN v

\* String(value): a list converts to its elements joined by ",".
String(v) == IF IsList(v) THEN join(v.l, ",") ELSE v.s

\* parseInt(data[key] as string); a missing key is undefined, which parses
\* to NaN.
parseInt(data, key) ==
  IF key \in DOMAIN data THEN parseIntStr(String(data[key])) ELSE NaN

\* value.length of a string | string[]: characters of a string, entries of
\* a list.
length(v) == IF IsList(v) THEN Len(v.l) ELSE Len(v.s)

(***************************************************************************)
(* Header keys read by the code.                                           *)
(***************************************************************************)
kLines == <<"l","i","n","e","s">>
kSamples == <<"s","a","m","p","l","e","s">>
kBands == <<"b","a","n","d","s">>
kBandNames == <<"b","a","n","d","_","n","a","m","e","s">>
kWavelength == <<"w","a","v","e","l","e","n","g","t","h">>
kInterleave == <<"i","n","t","e","r","l","e","a","v","e">>
kDataType == <<"d","a","t","a","_","t","y","p","e">>
sENVI == <<"E","N","V","I">>

(***************************************************************************)
(* loadHeaderData                                                          *)
(***************************************************************************)
put(data, key, v) ==
  [k \in DOMAIN data \cup {key} |-> IF k = key THEN v ELSE data[k]]

\* while (!value.endsWith("}")) { i++; if (i >= lines.length) throw; value += lines[i].trim() }
\* lines is 1-based here: lines[i + 1] is the code's lines[i].
RECURSIVE readList(_, _, _)
readList(lines, i, value) ==
  IF endsWith(value, "}") THEN [err |-> "", i |-> i, value |-> value]
  ELSE IF i + 1 >= Len(lines)
       THEN [err |-> "UnterminatedList", i |-> i + 1, value |-> value]
       ELSE readList(lines, i + 1, value \o trim(lines[i + 2]))

\* listValues without the trim of each element.
listValuesNoTrim(value) ==
  split(slice(value, 1, Len(value) - 1), ",")

listValues(value) ==
  LET parts == split(slice(value, 1, Len(value) - 1), ",")
  IN [m \in 1..Len(parts) |-> trim(parts[m])]

normKey(line, splitIndex) ==
  toLowerCase(replace(trim(slice(line, 0, splitIndex)), " ", "_"))

\* for (let i = 1; i < lines.length; i++) { ... }
\* log records, for each line parsed as key = value, the key, the line
\* (first), the last line consumed for its value and the value stored.
RECURSIVE parseLines(_, _, _, _)
parseLines(lines, i, data, log) ==
  IF i >= Len(lines) THEN [err |-> "", data |-> data, log |-> log]
  ELSE
    LET line == trim(lines[i + 1])
        splitIndex == indexOf(line, "=")
    IN IF splitIndex = -1 THEN parseLines(lines, i + 1, data, log)
       ELSE
         LET key == normKey(line, splitIndex)
             value == trim(slice(line, splitIndex + 1, Len(line)))
             entry(last, v) ==
               [key |-> key, first |-> i, last |-> last, value |-> v]
         IN IF value # <<>> /\ value[1] = "{"
            THEN LET r == readList(lines, i, value)
                 IN IF r.err # ""
                    THEN [err |-> r.err, data |-> data,
                          log |-> Append(log, entry(r.i, [l |-> <<>>]))]
                    ELSE parseLines(lines, r.i + 1,
                                    put(data, key, [l |-> listValues(r.value)]),
                                    Append(log, entry(r.i, [l |-> listValues(r.value)])))
            ELSE parseLines(lines, i + 1, put(data, key, [s |-> value]),
                            Append(log, entry(i, [s |-> value])))

EmptyData == [k \in {} |-> [s |-> <<>>]]

\* if ("bands" in data) { ... }
checkBands(data) ==
  IF kBands \in DOMAIN data
  THEN LET bands == parseInt(data, kBands)
       IN IF kBandNames \in DOMAIN data
             /\ (bands.nan \/ length(data[kBandNames]) # bands.n)
          THEN "BandNames"
          ELSE IF kWavelength \in DOMAIN data
                  /\ (bands.nan \/ length(data[kWavelength]) # bands.n)
               THEN "Wavelengths"
               ELSE ""
  ELSE ""

\* The result of loadHeaderData on the header text: err = "" and the parsed
\* mapping, or the cause of the EnviHeaderError it throws.
loadHeaderData(text) ==
  LET lines == split(text, "\n")
  IN IF Len(lines) = 0 THEN [err |-> "Empty", data |-> EmptyData]
     ELSE IF lines[1] # sENVI THEN [err |-> "NotENVI", data |-> EmptyData]
     ELSE LET p == parseLines(lines, 1, EmptyData, <<>>)
          IN IF p.err # "" THEN [err |-> p.err, data |-> EmptyData]
             ELSE IF checkBands(p.data) # ""
                  THEN [err |-> checkBands(p.data), data |-> EmptyData]
                  ELSE [err |-> "", data |-> p.data]

(***************************************************************************)
(* getBilData: the data-type table, the validation chain, the strides.     *)
(***************************************************************************)
DataTypeCodes == {1, 2, 3, 4, 5, 6, 9, 12, 13, 14, 15}

\* BilDataTypes[code].byteSize
byteSize(code) ==
  CASE code = 1 -> 1
    [] code \in {2, 12} -> 2
    [] code \in {3, 4, 13} -> 4
    [] code \in {5, 6, 14, 15} -> 8
    [] code = 9 -> 16

sBil == <<"b","i","l">>
sBip == <<"b","i","p">>
sBsq == <<"b","s","q">>

\* switch (interleave): the case matched, "" for the default branch.  A
\* missing field or a list value equals none of the three literals.
interleaveCase(headerData) ==
  IF kInterleave \in DOMAIN headerData /\ ~IsList(headerData[kInterleave])
  THEN LET v == headerData[kInterleave].s
       IN IF v = sBil THEN "bil"
          ELSE IF v = sBip THEN "bip"
          ELSE IF v = sBsq THEN "bsq"
          ELSE ""
  ELSE ""

\* validate with the size compared to lines * samples, the bands left out.
validateSizeNoBands(headerData, size, channels) ==
  LET lines == parseInt(headerData, kLines)
      samples == parseInt(headerData, kSamples)
      bands == parseInt(headerData, kBands)
      dataTypeCode == parseInt(headerData, kDataType)
  IN IF isNaN(lines) \/ isNaN(samples) \/ isNaN(bands)
     THEN "MissingDimensions"
     ELSE IF \E m \in 1..Len(channels) :
               channels[m] < 0 \/ channels[m] >= bands.n
     THEN "ChannelOutOfRange"
     ELSE IF interleaveCase(headerData) = ""
     THEN "UnsupportedInterleave"
     ELSE IF isNaN(dataTypeCode) \/ dataTypeCode.n \notin DataTypeCodes
     THEN "UnsupportedDataType"
     ELSE IF size % byteSize(dataTypeCode.n) # 0
     THEN "NotAligned"
     ELSE IF size \div byteSize(dataTypeCode.n) # lines.n * samples.n
     THEN "SizeMismatch"
     ELSE ""

\* validate with the interleave switch moved before the channel check.
validateInterleaveFirst(headerData, size, channels) ==
  LET lines == parseInt(headerData, kLines)
      samples == parseInt(headerData, kSamples)
      bands == parseInt(headerData, kBands)
      dataTypeCode == parseInt(headerData, kDataType)
  IN IF isNaN(lines) \/ isNaN(samples) \/ isNaN(bands)
     THEN "MissingDimensions"
     ELSE IF interleaveCase(headerData) = ""
     THEN "UnsupportedInterleave"
     ELSE IF \E m \in 1..Len(channels) :
               channels[m] < 0 \/ channels[m] >= bands.n
     THEN "ChannelOutOfRange"
     ELSE IF isNaN(dataTypeCode) \/ dataTypeCode.n \notin DataTypeCodes
     THEN "UnsupportedDataType"
     ELSE IF size % byteSize(dataTypeCode.n) # 0
     THEN "NotAligned"
     ELSE IF size \div byteSize(dataTypeCode.n) # lines.n * samples.n * bands.n
     THEN "SizeMismatch"
     ELSE ""

\* The throw statements of getBilData before the first read, in code order:
\* "" when none is reached.
validate(headerData, size, channels) ==
  LET lines == parseInt(headerData, kLines)
      samples == parseInt(headerData, kSamples)
      bands == parseInt(headerData, kBands)
      dataTypeCode == parseInt(headerData, kDataType)
  IN IF isNaN(lines) \/ isNaN(samples) \/ isNaN(bands)
     THEN "MissingDimensions"
     ELSE IF \E m \in 1..Len(channels) :
               channels[m] < 0 \/ channels[m] >= bands.n
     THEN "ChannelOutOfRange"
     ELSE IF interleaveCase(headerData) = ""
     THEN "UnsupportedInterleave"
     ELSE IF isNaN(dataTypeCode) \/ dataTypeCode.n \notin DataTypeCodes
     THEN "UnsupportedDataType"
     ELSE IF size % byteSize(dataTypeCode.n) # 0
     THEN "NotAligned"
     ELSE IF size \div byteSize(dataTypeCode.n) # lines.n * samples.n * bands.n
     THEN "SizeMismatch"
     ELSE ""

\* fileStrides with the BSQ case given the line stride of the other two.
fileStridesBsqLine(interleave, lines, samples, bands) ==
  CASE interleave = "bil" -> <<samples * bands, 1, samples>>
    [] interleave = "bip" -> <<samples * bands, bands, 1>>
    [] interleave = "bsq" -> <<samples * bands, 1, lines * samples>>

\* fileStrides, in elements, for (line, sample, band).
fileStrides(interleave, lines, samples, bands) ==
  CASE interleave = "bil" -> <<samples * bands, 1, samples>>
    [] interleave = "bip" -> <<samples * bands, bands, 1>>
    [] interleave = "bsq" -> <<samples, 1, lines * samples>>

\* outputStride with the channel as the fastest axis.
outputStridePixel(samples, selectedBandsCount) ==
  <<samples * selectedBandsCount, selectedBandsCount, 1>>

\* outputStride, in elements, for (line, sample, selected channel).
outputStride(samples, selectedBandsCount) ==
  <<samples * selectedBandsCount, 1, samples>>

\* The constants of one call that passed validation.
plan(headerData, channels) ==
  LET lines == parseInt(headerData, kLines).n
      samples == parseInt(headerData, kSamples).n
      bands == parseInt(headerData, kBands).n
      il == interleaveCase(headerData)
  IN [interleave |-> il, lines |-> lines, samples |-> samples, bands |-> bands,
      w |-> byteSize(parseInt(headerData, kDataType).n),
      K |-> Len(channels), channels |-> channels,
      fs |-> fileStrides(il, lines, samples, bands),
      os |-> outputStride(samples, Len(channels))]

(***************************************************************************)
(* The copy loops.  The loops of each case issue their reads in a fixed    *)
(* order; read number n (from 0) stands for the loop variables of that     *)
(* iteration.                                                              *)
(***************************************************************************)
Max(a, b) == IF a > b THEN a ELSE b
Min(a, b) == IF a < b THEN a ELSE b

\* nReads with the BIL case reading once per line, not once per line and
\* channel.
nReadsOnePerLine(p) ==
  CASE p.interleave = "bil" -> IF p.lines > 0 /\ p.K > 0 THEN p.lines ELSE 0
    [] p.interleave = "bip" ->
         IF p.lines > 0 /\ p.samples > 0 THEN p.lines * p.K * p.samples ELSE 0
    [] p.interleave = "bsq" -> p.K

\* How many times the loops reach bilFile.slice.
nReads(p) ==
  CASE p.interleave = "bil" -> IF p.lines > 0 THEN p.lines * p.K ELSE 0
    [] p.interleave = "bip" ->
         IF p.lines > 0 /\ p.samples > 0 THEN p.lines * p.K * p.samples ELSE 0
    [] p.interleave = "bsq" -> p.K

\* The loop variables (i, c, j) at read n; a variable the loop around the
\* read does not have is 0.
loopVars(p, n) ==
  CASE p.interleave = "bil" -> [i |-> n \div p.K, c |-> n % p.K, j |-> 0]
    [] p.interleave = "bip" ->
         [i |-> n \div (p.K * p.samples), c |-> (n \div p.samples) % p.K,
          j |-> n % p.samples]
    [] p.interleave = "bsq" -> [i |-> 0, c |-> n, j |-> 0]

\* readRange with the length of the read given as its end.
readRangeLength(p, n) ==
  LET v == loopVars(p, n)
      channel == p.channels[v.c + 1]
      startByte ==
        CASE p.interleave = "bil" ->
               (v.i * p.fs[1] + channel * p.fs[3]) * p.w
          [] p.interleave = "bip" ->
               (v.i * p.fs[1] + v.j * p.fs[2] + channel * p.fs[3]) * p.w
          [] p.interleave = "bsq" -> channel * p.fs[3] * p.w
      n_bytes ==
        CASE p.interleave = "bil" -> p.samples * p.w
          [] p.interleave = "bip" -> p.w
          [] p.interleave = "bsq" -> p.lines * p.samples * p.w
  IN <<startByte, n_bytes>>

\* <<startByte, endByte>> of read n.
readRange(p, n) ==
  LET v == loopVars(p, n)
      channel == p.channels[v.c + 1]
      startByte ==
        CASE p.interleave = "bil" ->
               (v.i * p.fs[1] + channel * p.fs[3]) * p.w
          [] p.interleave = "bip" ->
               (v.i * p.fs[1] + v.j * p.fs[2] + channel * p.fs[3]) * p.w
          [] p.interleave = "bsq" -> channel * p.fs[3] * p.w
      n_bytes ==
        CASE p.interleave = "bil" -> p.samples * p.w
          [] p.interleave = "bip" -> p.w
          [] p.interleave = "bsq" -> p.lines * p.samples * p.w
  IN <<startByte, startByte + n_bytes>>

\* Blob.slice(start, end): a negative bound counts from the end, both are
\* clamped to the size, an empty span gives an empty blob.
sliceBlob(file, startByte, endByte) ==
  LET size == Len(file)
      a == IF startByte < 0 THEN Max(size + startByte, 0) ELSE Min(startByte, size)
      b == IF endByte < 0 THEN Max(size + endByte, 0) ELSE Min(endByte, size)
  IN IF b <= a THEN <<>> ELSE SubSeq(file, a + 1, b)

\* The <<sourceStart, outputStartByte>> pairs of the elements copied out of
\* the buffer of read n, in loop order.
copies(p, n) ==
  LET v == loopVars(p, n)
      dst(i, j) == (i * p.os[1] + j * p.os[2] + v.c * p.os[3]) * p.w
  IN CASE p.interleave = "bil" ->
            [m \in 1..Max(p.samples, 0) |->
               <<(m - 1) * p.fs[2] * p.w, dst(v.i, m - 1)>>]
       [] p.interleave = "bip" -> << <<0, dst(v.i, v.j)>> >>
       [] p.interleave = "bsq" ->
            [m \in 1..(IF p.lines > 0 /\ p.samples > 0
                       THEN p.lines * p.samples ELSE 0) |->
               LET i == (m - 1) \div p.samples
                   j == (m - 1) % p.samples
               IN <<(i * p.fs[1] + j * p.fs[2]) * p.w, dst(i, j)>>]

\* new Uint8Array(buffer.buffer, sourceStart, w) then outputBuffer.set(view,
\* outputStartByte), for each pair in turn; either throws a RangeError when
\* its span leaves the array.
RECURSIVE copyAll(_, _, _, _)
copyAll(out, buffer, pairs, w) ==
  IF pairs = <<>> THEN [err |-> "", out |-> out]
  ELSE LET src == pairs[1][1]
           dst == pairs[1][2]
       IN IF src < 0 \/ src + w > Len(buffer) \/ dst < 0 \/ dst + w > Len(out)
          THEN [err |-> "RangeError", out |-> out]
          ELSE copyAll([k \in 1..Len(out) |->
                          IF k - 1 >= dst /\ k - 1 < dst + w
                          THEN buffer[src + (k - dst)] ELSE out[k]],
                       buffer, Tail(pairs), w)

(***************************************************************************)
(* One getBilData call as a frame: pc is "loading" (at await this.loading),*)
(* "reading" (at await slice.arrayBuffer() of read n), "done" (returned    *)
(* out) or "failed" (threw err).  reads lists the ranges given to          *)
(* bilFile.slice so far.  A zero byte of a fresh Uint8Array is 0; the      *)
(* bytes of a file are positive.                                           *)
(***************************************************************************)
Idle == [pc |-> "idle", err |-> "", n |-> 0, reads |-> <<>>, out |-> <<>>]

Failed(f, e) == [f EXCEPT !.pc = "failed", !.err = e, !.out = <<>>]

\* From the resumption after await this.loading to the first read, the
\* return or the first throw.
startCall(headerData, file, channels) ==
  LET e == validate(headerData, Len(file), channels)
  IN IF e # "" THEN Failed(Idle, e)
     ELSE LET p == plan(headerData, channels)
              len == p.lines * p.samples * p.K * p.w
          IN IF len < 0 THEN Failed(Idle, "RangeError")
             ELSE IF nReads(p) = 0
                  THEN [Idle EXCEPT !.pc = "done", !.out = [k \in 1..len |-> 0]]
                  ELSE [Idle EXCEPT !.pc = "reading",
                                    !.reads = <<readRange(p, 0)>>,
                                    !.out = [k \in 1..len |-> 0]]

\* From the resumption after read f.n to the next read, the return or a
\* throw.
completeRead(headerData, file, channels, f) ==
  LET p == plan(headerData, channels)
      r == readRange(p, f.n)
      s == copyAll(f.out, sliceBlob(file, r[1], r[2]), copies(p, f.n), p.w)
  IN IF s.err # "" THEN Failed(f, s.err)
     ELSE IF f.n + 1 < nReads(p)
          THEN [f EXCEPT !.n = f.n + 1,
                         !.reads = Append(f.reads, readRange(p, f.n + 1)),
                         !.out = s.out]
          ELSE [f EXCEPT !.pc = "done", !.out = s.out]

\* A call whose reads all succeed, run to its end.
RECURSIVE runCall(_, _, _, _)
runCall(headerData, file, channels, f) ==
  IF f.pc = "reading"
  THEN runCall(headerData, file, channels,
               completeRead(headerData, file, channels, f))
  ELSE f

(***************************************************************************)
(* Inputs: header texts, header mappings and data files.                   *)
(***************************************************************************)
MaxDim == 2
MaxChannels == 2
MaxFileSize == 4

\* Lines a header text of SpecHeader is made of.
\* bands = 2
L1 == <<"b","a","n","d","s"," ","="," ","2">>

\* Bands=3
L2 == <<"B","a","n","d","s","=","3">>

\* band names = {red,
L3 == <<"b","a","n","d"," ","n","a","m","e","s"," ","="," ","{","r","e","d",",">>

\*  green,\r
L4 == <<" ","g","r","e","e","n",",","\r">>

\* blue}\r
L5 == <<"b","l","u","e","}","\r">>

\* k=blue}
L6 == <<"k","=","b","l","u","e","}">>

\* band names = abc
L7 == <<"b","a","n","d"," ","n","a","m","e","s"," ","="," ","a","b","c">>

\* wavelength = {1, 2}
L8 == <<"w","a","v","e","l","e","n","g","t","h"," ","="," ","{","1",","," ","2","}">>

\* description
L9 == <<"d","e","s","c","r","i","p","t","i","o","n">>

\* wavelength = {
L10 == <<"w","a","v","e","l","e","n","g","t","h"," ","="," ","{">>

LinePool == {L1, L2, L3, L4, L5, L6, L7, L8, L9, L10}

\* The sequences over S of length at most n.
RECURSIVE SeqsUpTo(_, _)
SeqsUpTo(S, n) ==
  IF n = 0 THEN {<<>>}
  ELSE LET shorter == SeqsUpTo(S, n - 1)
       IN shorter \cup {Append(q, x) : q \in shorter, x \in S}

\* The text of a file whose lines are first, then those of ls.
RECURSIVE textOf(_, _)
textOf(first, ls) ==
  IF ls = <<>> THEN first
  ELSE textOf(first \o <<"\n">> \o Head(ls), Tail(ls))

HeaderTexts ==
  {<<>>} \cup {textOf(first, ls) : first \in {sENVI, sENVI \o <<" ">>},
                                   ls \in SeqsUpTo(LinePool, MaxHeaderLines)}

\* Lines of the complete headers of Spec.
tLines == <<"l","i","n","e","s"," ","="," ","1">>

tSamples == <<"s","a","m","p","l","e","s"," ","="," ","2">>

tBands == <<"b","a","n","d","s"," ","="," ","2">>

tBsq == <<"i","n","t","e","r","l","e","a","v","e"," ","="," ","b","s","q">>

tBil == <<"i","n","t","e","r","l","e","a","v","e"," ","="," ","b","i","l">>

tType == <<"d","a","t","a"," ","t","y","p","e"," ","="," ","1">>

tNames == <<"b","a","n","d"," ","n","a","m","e","s"," ","="," ","{","a",",">>

tNamesEnd == <<"b","}">>

tNames3 == <<"b","a","n","d"," ","n","a","m","e","s"," ","="," ","{","a",","," ","b",","," ","c","}">>

tOpen == <<"w","a","v","e","l","e","n","g","t","h"," ","="," ","{","1",",">>

ImageTexts ==
  { textOf(sENVI, <<tLines, tSamples, tBands, tBsq, tType, tNames, tNamesEnd>>),
    textOf(sENVI, <<tLines, tSamples, tBands, tBil, tType>>),
    textOf(sENVI, <<tSamples, tBands, tBsq, tType>>),
    textOf(sENVI, <<tLines, tSamples, tBands, tBsq, tType, tNames3>>),
    textOf(sENVI, <<tLines, tSamples, tBands, tBsq, tType, tOpen>>),
    textOf(tLines, <<tSamples, tBands, tBsq, tType>>) }

\* The decimal text of an integer.
RECURSIVE decimal(_)
decimal(n) ==
  IF n < 0 THEN <<"-">> \o decimal(0 - n)
  ELSE IF n < 10 THEN <<Digits[n + 1]>>
  ELSE decimal(n \div 10) \o <<Digits[(n % 10) + 1]>>

\* A field of a header mapping: <<>> for a missing key, <<v>> for value v.
putOpt(data, key, opt) ==
  IF opt = <<>> THEN data ELSE put(data, key, [s |-> opt[1]])

numOpt(opt) == IF opt = <<>> THEN <<>> ELSE <<decimal(opt[1])>>

mkHeader(l, s, b, il, dt) ==
  putOpt(putOpt(putOpt(putOpt(putOpt(EmptyData,
    kLines, numOpt(l)), kSamples, numOpt(s)), kBands, numOpt(b)),
    kInterleave, <<il>>), kDataType, numOpt(dt))

DimOpts == {<<>>} \cup {<<n>> : n \in -1..MaxDim}

InterleaveTexts == {sBil, sBip, sBsq, <<"B","I","L">>}

\* Codes 1 and 2 are in the table of data types, 7 is not.
DataTypeOpts == {<<1>>, <<2>>, <<7>>}

\* A data file of size bytes whose byte at offset o is o + 1.
rawFile(size) == [o \in 1..size |-> o]

\* The data file of an image of the given dimensions and byte width, laid
\* out as il: the byte t of element (line i, sample j, band b) is numbered
\* 1 + ((i * S + j) * B + b) * w + t, whatever the layout.
elementId(L, S, B, i, j, b) == (i * S + j) * B + b

layoutFile(il, L, S, B, w) ==
  [o \in 1..(L * S * B * w) |->
     LET e == (o - 1) \div w
         t == (o - 1) % w
     IN CASE il = "bil" ->
               1 + elementId(L, S, B, e \div (S * B), e % S, (e \div S) % B) * w + t
          [] il = "bip" ->
               1 + elementId(L, S, B, e \div (S * B), (e \div B) % S, e % B) * w + t
          [] il = "bsq" ->
               1 + elementId(L, S, B, (e \div S) % L, e % S, e \div (S * L)) * w + t]

interleaveText(il) ==
  CASE il = "bil" -> sBil [] il = "bip" -> sBip [] il = "bsq" -> sBsq

Interleaves == {"bil", "bip", "bsq"}

(***************************************************************************)
(* State.                                                                  *)
(***************************************************************************)
VARIABLES
  headerFile,   \* the text of the header file
  bilFile,      \* the bytes of the data file
  headerData,   \* this.headerData
  loading,      \* this.loading: st, and the value or error it settles with
  parses,       \* how often loadHeaderData has parsed the text
  assigns,      \* how often the constructor's then-callback has run
  channels,     \* the argument of the getBilData call
  call,         \* the frame of the getBilData call
  decoded       \* SpecLayout: the buffers returned so far, by interleave

vars == <<headerFile, bilFile, headerData, loading, parses, assigns,
          channels, call, decoded>>

Pending == [st |-> "pending", data |-> EmptyData, err |-> ""]

NoneDecoded == [il \in {} |-> <<>>]

(***************************************************************************)
(* The constructor and the header load.                                    *)
(***************************************************************************)
\* The state a successful new EnviImage(headerFile, bilFile) leaves:
\* headerData = {}, loadHeaderData suspended at await this.headerFile.text().
constructed(text, file) ==
  /\ headerFile = text
  /\ bilFile = file
  /\ headerData = EmptyData
  /\ loading = Pending
  /\ parses = 0
  /\ assigns = 0
  /\ channels = <<>>
  /\ call = Idle
  /\ decoded = NoneDecoded

\* this.headerFile.text() resolves: loadHeaderData parses and resolves with
\* the mapping or rejects with an EnviHeaderError.
TextResolve ==
  /\ loading.st = "pending"
  /\ LET r == loadHeaderData(headerFile)
     IN loading' = IF r.err = ""
                   THEN [st |-> "parsed", data |-> r.data, err |-> ""]
                   ELSE [st |-> "rejected", data |-> EmptyData, err |-> r.err]
  /\ parses' = parses + 1
  /\ UNCHANGED <<headerFile, bilFile, headerData, assigns, channels, call, decoded>>

\* this.headerFile.text() rejects: the catch block rethrows an
\* EnviHeaderError.
TextReject ==
  /\ loading.st = "pending"
  /\ loading' = [st |-> "rejected", data |-> EmptyData, err |-> "ReadFailed"]
  /\ UNCHANGED <<headerFile, bilFile, headerData, parses, assigns, channels,
                 call, decoded>>

\* .then((data) => { this.headerData = data; }) runs and this.loading
\* fulfils.
ThenAssign ==
  /\ loading.st = "parsed"
  /\ headerData' = loading.data
  /\ assigns' = assigns + 1
  /\ loading' = [loading EXCEPT !.st = "fulfilled"]
  /\ UNCHANGED <<headerFile, bilFile, parses, channels, call, decoded>>

(***************************************************************************)
(* getBilData                                                              *)
(***************************************************************************)
ChannelLists == SeqsUpTo(-1..MaxDim, MaxChannels)

\* getBilData(ch) is called and suspends at await this.loading.
GetBilData(ch) ==
  /\ call.pc = "idle"
  /\ channels' = ch
  /\ call' = [Idle EXCEPT !.pc = "loading"]
  /\ UNCHANGED <<headerFile, bilFile, headerData, loading, parses, assigns, decoded>>

\* Resume without the wait for this.loading: the call reads headerData as
\* it is.
ResumeEarly ==
  /\ call.pc = "loading"
  /\ call' = IF loading.st = "rejected"
             THEN Failed(call, "HeaderError")
             ELSE startCall(headerData, bilFile, channels)
  /\ UNCHANGED <<headerFile, bilFile, headerData, loading, parses, assigns,
                 channels, decoded>>

\* this.loading has settled: the call throws its error, or validates and
\* runs up to its first read.
Resume ==
  /\ call.pc = "loading"
  /\ loading.st \in {"fulfilled", "rejected"}
  /\ call' = IF loading.st = "rejected"
             THEN Failed(call, "HeaderError")
             ELSE startCall(headerData, bilFile, channels)
  /\ UNCHANGED <<headerFile, bilFile, headerData, loading, parses, assigns,
                 channels, decoded>>

\* slice.arrayBuffer() resolves.
ReadDone ==
  /\ call.pc = "reading"
  /\ call' = completeRead(headerData, bilFile, channels, call)
  /\ UNCHANGED <<headerFile, bilFile, headerData, loading, parses, assigns,
                 channels, decoded>>

\* slice.arrayBuffer() rejects.
ReadFail ==
  /\ call.pc = "reading"
  /\ call' = Failed(call, "IOError")
  /\ UNCHANGED <<headerFile, bilFile, headerData, loading, parses, assigns,
                 channels, decoded>>

(***************************************************************************)
(* Spec: one image from its construction on, with one getBilData call      *)
(* issued at any time.                                                     *)
(***************************************************************************)
Init ==
  \E text \in ImageTexts, size \in 0..MaxFileSize :
    constructed(text, rawFile(size))

Next ==
  \/ TextResolve
  \/ TextReject
  \/ ThenAssign
  \/ \E ch \in ChannelLists : GetBilData(ch)
  \/ Resume
  \/ ReadDone
  \/ ReadFail

Spec == Init /\ [][Next]_vars

(***************************************************************************)
(* SpecHeader: the header load alone, over many header texts.              *)
(***************************************************************************)
InitHeader ==
  \E text \in HeaderTexts : constructed(text, rawFile(0))

NextHeader ==
  \/ TextResolve
  \/ TextReject
  \/ ThenAssign

SpecHeader == InitHeader /\ [][NextHeader]_vars

(***************************************************************************)
(* SpecDecode: getBilData on an image whose header has loaded, over many   *)
(* header mappings, file sizes and channel lists.                          *)
(***************************************************************************)
loaded(data, file) ==
  /\ headerFile = <<>>
  /\ bilFile = file
  /\ headerData = data
  /\ loading = [st |-> "fulfilled", data |-> data, err |-> ""]
  /\ parses = 1
  /\ assigns = 1
  /\ channels = <<>>
  /\ call = Idle
  /\ decoded = NoneDecoded

InitDecode ==
  \E l \in DimOpts, s \in DimOpts, b \in DimOpts, il \in InterleaveTexts,
     dt \in DataTypeOpts, size \in 0..MaxFileSize :
    loaded(mkHeader(l, s, b, il, dt), rawFile(size))

NextDecode ==
  \/ \E ch \in ChannelLists : GetBilData(ch)
  \/ Resume
  \/ ReadDone
  \/ ReadFail

SpecDecode == InitDecode /\ [][NextDecode]_vars

(***************************************************************************)
(* SpecLayout: the same image stored as BIL, BIP and BSQ; each file is     *)
(* decoded with the same channel list, all reads succeeding.               *)
(***************************************************************************)
imageOf(il, L, S, B, code) ==
  loaded(mkHeader(<<L>>, <<S>>, <<B>>, interleaveText(il), <<code>>),
         layoutFile(il, L, S, B, byteSize(code)))

InitLayout ==
  \E L \in 1..MaxDim, S \in 1..MaxDim, B \in 1..MaxDim, code \in DataTypeCodes :
    imageOf("bil", L, S, B, code)

\* getBilData(ch) on the current file, run to its end.
Decode(ch) ==
  /\ call.pc = "idle"
  /\ decoded = NoneDecoded \/ ch = channels
  /\ channels' = ch
  /\ call' = runCall(headerData, bilFile, ch, startCall(headerData, bilFile, ch))
  /\ decoded' = [il \in DOMAIN decoded \cup {interleaveCase(headerData)} |->
                   IF il = interleaveCase(headerData) THEN call'.out ELSE decoded[il]]
  /\ UNCHANGED <<headerFile, bilFile, headerData, loading, parses, assigns>>

\* The same image in the next layout, BIL then BIP then BSQ: the header
\* differs in interleave only.
OtherFile(il) ==
  /\ call.pc = "done"
  /\ il \notin DOMAIN decoded
  /\ il = (IF interleaveCase(headerData) = "bil" THEN "bip" ELSE "bsq")
  /\ LET L == parseInt(headerData, kLines).n
         S == parseInt(headerData, kSamples).n
         B == parseInt(headerData, kBands).n
         w == byteSize(parseInt(headerData, kDataType).n)
     IN /\ headerData' = put(headerData, kInterleave, [s |-> interleaveText(il)])
        /\ bilFile' = layoutFile(il, L, S, B, w)
  /\ loading' = [loading EXCEPT !.data = headerData']
  /\ call' = Idle
  /\ UNCHANGED <<headerFile, parses, assigns, channels, decoded>>

NextLayout ==
  \/ \E ch \in SeqsUpTo(0..(MaxDim - 1), MaxChannels) :
       /\ \A m \in 1..Len(ch) : ch[m] < parseInt(headerData, kBands).n
       /\ Decode(ch)
  \/ \E il \in Interleaves : OtherFile(il)

SpecLayout == InitLayout /\ [][NextLayout]_vars

(***************************************************************************)
(* Properties.                                                             *)
(***************************************************************************)
\* The dimensions, byte width and channel count of the current call.
hLines == parseInt(headerData, kLines).n
hSamples == parseInt(headerData, kSamples).n
hBands == parseInt(headerData, kBands).n
hWidth == byteSize(parseInt(headerData, kDataType).n)
hK == Len(channels)

\* The bytes of element number e of a buffer of elements w bytes wide.
elementAt(buf, e, w) == [t \in 1..w |-> buf[e * w + t]]

\* The bytes of the image's element (line i, sample j, band b) in a file
\* made by layoutFile.
elementBytes(i, j, b, w) ==
  [t \in 1..w |-> 1 + elementId(hLines, hSamples, hBands, i, j, b) * w + (t - 1)]

\* C1. Interleave equivalence: the BIL, BIP and BSQ files of one image,
\* decoded with the same channel list, all decode successfully and give
\* byte-identical buffers.
C1_InterleaveEquivalence ==
  /\ call.pc \in {"idle", "done"}
  /\ \A a \in DOMAIN decoded, b \in DOMAIN decoded : decoded[a] = decoded[b]

C1_Witness ==
  /\ DOMAIN decoded = Interleaves
  /\ hLines > 1 /\ hSamples > 1 /\ hBands > 1 /\ hWidth > 1
  /\ channels = <<1, 0>>
  /\ decoded["bsq"] # <<>>

identitySelection == channels = [m \in 1..hBands |-> m - 1]

resumed == call.pc \in {"reading", "done", "failed"}

\* (1) lines, samples and bands present and numeric
pre1 ==
  /\ ~isNaN(parseInt(headerData, kLines))
  /\ ~isNaN(parseInt(headerData, kSamples))
  /\ ~isNaN(parseInt(headerData, kBands))

\* (2) every channel in 0..bands-1
pre2 == \A m \in 1..Len(channels) : channels[m] \in 0..(hBands - 1)

\* (3) interleave is one of bil, bip, bsq
pre3 ==
  /\ kInterleave \in DOMAIN headerData
  /\ headerData[kInterleave] \in {[s |-> sBil], [s |-> sBip], [s |-> sBsq]}

\* (4) the data_type code is in the table
pre4 ==
  /\ ~isNaN(parseInt(headerData, kDataType))
  /\ parseInt(headerData, kDataType).n \in DataTypeCodes

\* (5) the file holds exactly lines * samples * bands elements
pre5 == Len(bilFile) = hLines * hSamples * hBands * hWidth

SizeErrors == {"NotAligned", "SizeMismatch"}

failedWith(errs) ==
  /\ call.pc = "failed"
  /\ call.err \in errs
  /\ call.reads = <<>>

\* C4. No read before validation passes: a read has been issued only if all
\* five preconditions hold; with numeric dimensions a channel below 0 or at
\* or above bands makes the call fail with the channel-out-of-range error,
\* and with the first four preconditions met a file of another size than
\* lines*samples*bands*byteWidth makes it fail with the size error, in both
\* cases with no read issued.
C4_NoReadBeforeValidation ==
  /\ call.reads # <<>> => (pre1 /\ pre2 /\ pre3 /\ pre4 /\ pre5)
  /\ (resumed /\ pre1 /\ ~pre2) => failedWith({"ChannelOutOfRange"})
  /\ (resumed /\ pre1 /\ pre2 /\ pre3 /\ pre4 /\ ~pre5) => failedWith(SizeErrors)

C4_Witness ==
  /\ pre1 /\ pre2 /\ pre3 /\ pre4
  /\ hLines > 0 /\ hSamples > 0 /\ hBands > 1
  /\ channels # <<>>
  /\ Len(bilFile) = hLines * hSamples * hBands * hWidth - 1
  /\ failedWith(SizeErrors)

\* C5. Validation order: the call fails with the error of the first
\* violated precondition in the order (1) dimensions, (2) channels,
\* (3) interleave, (4) data type, (5) file size, without a read; it fails
\* with none of these errors when all five hold.
C5_ValidationOrder ==
  resumed =>
    IF ~pre1 THEN failedWith({"MissingDimensions"})
    ELSE IF ~pre2 THEN failedWith({"ChannelOutOfRange"})
    ELSE IF ~pre3 THEN failedWith({"UnsupportedInterleave"})
    ELSE IF ~pre4 THEN failedWith({"UnsupportedDataType"})
    ELSE IF ~pre5 THEN failedWith(SizeErrors)
    ELSE call.err \notin {"MissingDimensions", "ChannelOutOfRange",
                          "UnsupportedInterleave", "UnsupportedDataType"}
                         \cup SizeErrors

C5_Witness ==
  /\ failedWith({"ChannelOutOfRange"})
  /\ pre1 /\ ~pre2 /\ ~pre3 /\ ~pre4
  /\ Len(bilFile) # hLines * hSamples * hBands

\* C6. All-or-nothing decode: a call that returns, returns exactly
\* lines*samples*K*byteWidth bytes, each of them a byte of the data file
\* that one of the call's reads covered; a call that fails returns no
\* buffer.
C6_AllOrNothing ==
  /\ call.pc = "done" =>
       /\ Len(call.out) = hLines * hSamples * hK * hWidth
       /\ \A k \in 1..Len(call.out) :
            \E m \in 1..Len(call.reads) :
              /\ call.out[k] - 1 >= call.reads[m][1]
              /\ call.out[k] - 1 < call.reads[m][2]
  /\ call.pc = "failed" => call.out = <<>>

\* The ranges the specification gives for a valid decode.
rangeOf(il, i, j, c) ==
  CASE il = "bil" ->
         <<(i * hSamples * hBands + channels[c + 1] * hSamples) * hWidth,
           (i * hSamples * hBands + channels[c + 1] * hSamples) * hWidth
             + hSamples * hWidth>>
    [] il = "bip" ->
         <<(i * hSamples * hBands + j * hBands + channels[c + 1]) * hWidth,
           (i * hSamples * hBands + j * hBands + channels[c + 1]) * hWidth
             + hWidth>>
    [] il = "bsq" ->
         <<channels[c + 1] * hLines * hSamples * hWidth,
           channels[c + 1] * hLines * hSamples * hWidth
             + hLines * hSamples * hWidth>>

\* The loop positions that issue a read: (line, channel) for BIL, (line,
\* sample, channel) for BIP, (channel) for BSQ.
readPositions(il) ==
  CASE il = "bil" -> {<<i, 0, c>> : i \in 0..(hLines - 1), c \in 0..(hK - 1)}
    [] il = "bip" -> {<<i, j, c>> : i \in 0..(hLines - 1),
                                    j \in 0..(hSamples - 1), c \in 0..(hK - 1)}
    [] il = "bsq" -> {<<0, 0, c>> : c \in 0..(hK - 1)}

validPositive ==
  /\ pre1 /\ pre2 /\ pre3 /\ pre4 /\ pre5
  /\ hLines > 0 /\ hSamples > 0 /\ hBands > 0

\* C10. Read granularity and bounds: in a valid decode with positive
\* dimensions every range read so far lies in the file, 0 <= start < end <=
\* size, and is one the layout calls for; when the call returns, each such
\* range was read exactly as often as loop positions call for it: L*K reads
\* of S*w bytes for BIL, L*S*K reads of w bytes for BIP, K reads of L*S*w
\* bytes for BSQ.
C10_ReadGranularity ==
  (resumed /\ validPositive) =>
    LET il == interleaveCase(headerData)
        pos == readPositions(il)
        issued(r) == {m \in 1..Len(call.reads) : call.reads[m] = r}
        wanted(r) == {q \in pos : rangeOf(il, q[1], q[2], q[3]) = r}
    IN /\ \A m \in 1..Len(call.reads) :
            /\ 0 <= call.reads[m][1]
            /\ call.reads[m][1] < call.reads[m][2]
            /\ call.reads[m][2] <= Len(bilFile)
            /\ wanted(call.reads[m]) # {}
            /\ Cardinality(issued(call.reads[m]))
                 <= Cardinality(wanted(call.reads[m]))
       /\ call.pc = "done" =>
            /\ Len(call.reads) = Cardinality(pos)
            /\ \A q \in pos :
                 LET r == rangeOf(il, q[1], q[2], q[3])
                 IN Cardinality(issued(r)) = Cardinality(wanted(r))

C10_Witness ==
  /\ call.pc = "done"
  /\ validPositive
  /\ interleaveCase(headerData) = "bil"
  /\ hLines > 1 /\ hSamples > 1 /\ hBands > 1
  /\ channels = <<1, 1>>
  /\ Len(call.reads) = 4

(***************************************************************************)
(* The header load.                                                        *)
(***************************************************************************)
loadSucceeded == loading.st \in {"parsed", "fulfilled"}

\* The number of entries of a header value: those of a list, one for a
\* scalar.
entries(v) == IF IsList(v) THEN Len(v.l) ELSE 1

\* C7. Band-count cross-check: when the load succeeds and bands parses as
\* the integer N, a band_names value of the mapping has exactly N entries
\* and a wavelength value of the mapping has exactly N entries.
C7_BandCount ==
  (/\ loadSucceeded
   /\ kBands \in DOMAIN loading.data
   /\ ~isNaN(parseInt(loading.data, kBands))) =>
    \A key \in {kBandNames, kWavelength} \cap DOMAIN loading.data :
      entries(loading.data[key]) = parseInt(loading.data, kBands).n

\* The lines of the header text, and the text right of the first "=" of
\* line k (from 1).
physLines == split(headerFile, "\n")

rawValue(k) ==
  LET line == trim(physLines[k])
  IN trim(SubSeq(line, indexOf(line, "=") + 2, Len(line)))

\* The value of line k with the lines k+1..m appended, each trimmed.
RECURSIVE accumulated(_, _)
accumulated(k, m) ==
  IF m <= k THEN rawValue(k) ELSE accumulated(k, m - 1) \o trim(physLines[m])

\* The comma-separated, trimmed elements between the first and the last
\* character of v.
elementsOf(v) ==
  LET inner == SubSeq(v, 2, Len(v) - 1)
      commas == {x \in 1..Len(inner) : inner[x] = ","}
      cut(m) ==
        IF m = 0 THEN 0
        ELSE IF m > Cardinality(commas) THEN Len(inner) + 1
        ELSE CHOOSE x \in commas : Cardinality({y \in commas : y < x}) = m - 1
  IN [m \in 1..(Cardinality(commas) + 1) |->
        trim(SubSeq(inner, cut(m - 1) + 1, cut(m) - 1))]

\* C8. Multi-line list parsing: for every line k parsed as key = value
\* whose value starts with "{": with m the first line from k on at which the
\* value accumulated from the trimmed lines k..m ends with "}", the parser
\* consumes the lines up to m, parses none of the lines k+1..m as key =
\* value, and stores the comma-separated trimmed elements between the
\* braces; when there is no such m the load fails with the unterminated-list
\* header error.  The mapping of a successful load holds, for each key, the
\* value of the last line parsed for it.
C8_MultiLineList ==
  (loading.st # "pending" /\ loading.err # "ReadFailed"
     /\ physLines[1] = sENVI) =>
    LET log == parseLines(physLines, 1, EmptyData, <<>>).log
    IN /\ \A n \in 1..Len(log) :
            LET k == log[n].first + 1
                closing == {m \in k..Len(physLines) :
                              endsWith(accumulated(k, m), "}")}
            IN (rawValue(k) # <<>> /\ rawValue(k)[1] = "{") =>
                 IF closing = {}
                 THEN /\ n = Len(log)
                      /\ loading.st = "rejected"
                      /\ loading.err = "UnterminatedList"
                 ELSE LET m == CHOOSE x \in closing : \A y \in closing : x <= y
                      IN /\ log[n].last + 1 = m
                         /\ log[n].value = [l |-> elementsOf(accumulated(k, m))]
                         /\ \A n2 \in 1..Len(log) :
                              log[n2].first + 1 \notin (k + 1)..m
       /\ loadSucceeded =>
            /\ DOMAIN loading.data = {log[n].key : n \in 1..Len(log)}
            /\ \A n \in 1..Len(log) :
                 (\A n2 \in (n + 1)..Len(log) : log[n2].key # log[n].key)
                   => loading.data[log[n].key] = log[n].value

C8_Witness ==
  /\ headerFile = textOf(sENVI, <<L3, L4, L5>>)
  /\ loading.st = "fulfilled"
  /\ headerData = [k \in {kBandNames} |->
                     [l |-> << <<"r","e","d">>, <<"g","r","e","e","n">>,
                               <<"b","l","u","e">> >>]]

\* C9. Lazy header load: the text is parsed at most once and headerData
\* assigned at most once; headerData is the empty mapping until the load
\* completes and the parsed mapping from then on; once this.loading has
\* settled, neither it nor headerData changes; a getBilData call gets past
\* await this.loading only when the load has completed, and when the load
\* failed the call fails with the header error without a read.
C9_Inv ==
  /\ parses <= 1
  /\ assigns <= 1
  /\ loading.st = "fulfilled" =>
       /\ parses = 1
       /\ assigns = 1
       /\ headerData = loading.data
  /\ loading.st # "fulfilled" =>
       /\ assigns = 0
       /\ headerData = EmptyData
  /\ (resumed /\ call.err # "HeaderError") => loading.st = "fulfilled"
  /\ (resumed /\ loading.st = "rejected") => failedWith({"HeaderError"})

C9_Settled ==
  loading.st \in {"fulfilled", "rejected"} =>
    /\ loading' = loading
    /\ headerData' = headerData
    /\ parses' = parses
    /\ assigns' = assigns

====
